---------------------------- MODULE Spec2Model ----------------------------
(***************************************************************************)
(* Graph-based Lattice Explorer (src/main.py).                             *)
(*                                                                         *)
(* The lattice tables LATTICE_CONFIGS, the graph built from a table entry  *)
(* by create_graph_representation, the metrics of display_metrics, the     *)
(* adjacency matrix of create_adjacency_matrix and the traces of           *)
(* create_lattice_viz, stepped through in the order main() calls them.     *)
(*                                                                         *)
(* Encodings.                                                              *)
(*   - A coordinate is stored in units of 1/2: (1, 0, 0.5) is <<2, 0, 1>>.*)
(*   - Node indices are Python's, from 0; a TLA+ sequence starts at 1, so  *)
(*     nodes[i] of the code is nodes[i + 1] here.                          *)
(*   - f"{x:.2f}" is the integer number of hundredths, f"{x:.3f}" the      *)
(*     integer number of thousandths, rounded as Python rounds.            *)
(*   - A networkx Graph is a record: nodes (the node ids, in insertion     *)
(*     order) and adj (node id -> set of neighbours; a self-loop puts a    *)
(*     node in its own set).                                               *)
(***************************************************************************)
EXTENDS Integers, Sequences, FiniteSets, TLC

VARIABLES
    configs,        \* the module global LATTICE_CONFIGS (a mutable dict)
    lattice_type,   \* main(): the selectbox value
    node_size,      \* main(): slider
    edge_width,     \* main(): slider
    pc,             \* main(): the next call to make
    fig,            \* main(): result of create_lattice_viz
    G,              \* main(): create_graph_representation(...)[0]
    nodes,          \* main(): create_graph_representation(...)[1]
    edges,          \* main(): create_graph_representation(...)[2]
    metrics,        \* display_metrics: the metrics dict
    adj_matrix,     \* create_adjacency_matrix: nx.to_numpy_array(G)
    props,          \* main(): LATTICE_PROPERTIES[lattice_type]
    error,          \* the exception that ended the run, or "none"
    history         \* ghost: per family, what each call has returned so far

vars == <<configs, lattice_type, node_size, edge_width, pc, fig, G, nodes,
          edges, metrics, adj_matrix, props, error, history>>

None == "None"

-----------------------------------------------------------------------------
(* Bounds of the inputs drawn for the analysis functions. *)

MaxNodes == 4

MaxEdges == 2

-----------------------------------------------------------------------------
(* LATTICE_CONFIGS *)

Blue == "#4299e1"

Green == "#48bb78"

Repeat(x, n) == [i \in 1..n |-> x]

CubeCorners ==
    << <<0,0,0>>, <<2,0,0>>, <<0,2,0>>, <<2,2,0>>,
       <<0,0,2>>, <<2,0,2>>, <<0,2,2>>, <<2,2,2>> >>

SimpleCubicDangling ==
    [nodes  |-> CubeCorners,
     edges  |-> << <<0,1>>, <<0,2>>, <<0,4>>, <<1,3>>, <<1,5>>,
                   <<2,3>>, <<2,6>>, <<3,7>>, <<4,5>>, <<4,6>>,
                   <<5,7>>, <<6,8>> >>,
     colors |-> Repeat(Blue, 8)]

SimpleCubicDiagonal ==
    [nodes  |-> CubeCorners,
     edges  |-> << <<0,3>>, <<0,2>>, <<0,4>>, <<1,3>>, <<1,5>>,
                   <<2,3>>, <<2,6>>, <<3,7>>, <<4,5>>, <<4,6>>,
                   <<5,7>>, <<6,7>> >>,
     colors |-> Repeat(Blue, 8)]

SimpleCubic ==
    [nodes  |-> CubeCorners,
     edges  |-> << <<0,1>>, <<0,2>>, <<0,4>>, <<1,3>>, <<1,5>>,
                   <<2,3>>, <<2,6>>, <<3,7>>, <<4,5>>, <<4,6>>,
                   <<5,7>>, <<6,7>> >>,
     colors |-> Repeat(Blue, 8)]

BCCRange7 ==
    [nodes  |-> Append(CubeCorners, <<1,1,1>>),
     edges  |-> [i \in 1..7 |-> <<8, i - 1>>] \o
                << <<0,1>>, <<0,2>>, <<0,4>>, <<1,3>>, <<1,5>>,
                   <<2,3>>, <<2,6>>, <<3,7>>, <<4,5>>, <<4,6>>,
                   <<5,7>>, <<6,7>> >>,
     colors |-> Repeat(Blue, 8) \o <<Green>>]

BCC ==
    [nodes  |-> Append(CubeCorners, <<1,1,1>>),
     edges  |-> [i \in 1..8 |-> <<8, i - 1>>] \o
                << <<0,1>>, <<0,2>>, <<0,4>>, <<1,3>>, <<1,5>>,
                   <<2,3>>, <<2,6>>, <<3,7>>, <<4,5>>, <<4,6>>,
                   <<5,7>>, <<6,7>> >>,
     colors |-> Repeat(Blue, 8) \o <<Green>>]

FCCWrongFace ==
    [nodes  |-> CubeCorners \o << <<1,1,0>>, <<1,0,1>>, <<0,1,1>> >>,
     edges  |-> << <<0,8>>, <<1,8>>, <<2,8>>, <<3,8>>,
                   <<0,9>>, <<1,9>>, <<2,9>>, <<5,9>>,
                   <<0,10>>, <<2,10>>, <<4,10>>, <<6,10>>,
                   <<0,1>>, <<0,2>>, <<0,4>>, <<1,3>>, <<1,5>>,
                   <<2,3>>, <<2,6>>, <<3,7>>, <<4,5>>, <<4,6>>,
                   <<5,7>>, <<6,7>> >>,
     colors |-> Repeat(Blue, 8) \o Repeat(Green, 3)]

FCC ==
    [nodes  |-> CubeCorners \o << <<1,1,0>>, <<1,0,1>>, <<0,1,1>> >>,
     edges  |-> << <<0,8>>, <<1,8>>, <<2,8>>, <<3,8>>,
                   <<0,9>>, <<1,9>>, <<4,9>>, <<5,9>>,
                   <<0,10>>, <<2,10>>, <<4,10>>, <<6,10>>,
                   <<0,1>>, <<0,2>>, <<0,4>>, <<1,3>>, <<1,5>>,
                   <<2,3>>, <<2,6>>, <<3,7>>, <<4,5>>, <<4,6>>,
                   <<5,7>>, <<6,7>> >>,
     colors |-> Repeat(Blue, 8) \o Repeat(Green, 3)]

Octet ==
    [nodes  |-> Append(CubeCorners, <<1,1,1>>),
     edges  |-> << <<0,8>>, <<1,8>>, <<2,8>>, <<3,8>>,
                   <<4,8>>, <<5,8>>, <<6,8>>, <<7,8>>,
                   <<0,1>>, <<0,2>>, <<0,4>>, <<1,3>>, <<1,5>>,
                   <<2,3>>, <<2,6>>, <<3,7>>, <<4,5>>, <<4,6>>,
                   <<5,7>>, <<6,7>> >>,
     colors |-> Repeat(Blue, 8) \o <<Green>>]

LATTICE_CONFIGS ==
    ("Simple Cubic" :> SimpleCubic) @@ ("BCC" :> BCC) @@
    ("FCC" :> FCC) @@ ("Octet" :> Octet)

LATTICE_PROPERTIES ==
    ("Simple Cubic" :>
        [structural       |-> "Regular cubic arrangement with uniform node distribution",
         mechanical       |-> "Uniform load distribution, predictable deformation",
         applications     |-> "Basic structural components, scaffolds, lightweight structures",
         connectivity     |-> "6 connections per internal node",
         relative_density |-> "Low to medium (0.1-0.3)"]) @@
    ("BCC" :>
        [structural       |-> "Body-centered cubic with additional central node",
         mechanical       |-> "Enhanced load distribution and strength",
         applications     |-> "Load-bearing structures, energy absorption",
         connectivity     |-> "8 connections for center node, 4 for corner nodes",
         relative_density |-> "Medium (0.2-0.4)"]) @@
    ("FCC" :>
        [structural       |-> "Face-centered cubic with nodes at face centers",
         mechanical       |-> "High strength-to-weight ratio, isotropic behavior",
         applications     |-> "High-performance structural applications",
         connectivity     |-> "12 connections per unit cell",
         relative_density |-> "Medium to high (0.3-0.5)"]) @@
    ("Octet" :>
        [structural       |-> "Combination of octahedral and tetrahedral arrangements",
         mechanical       |-> "High stiffness-to-weight ratio",
         applications     |-> "Aerospace structures, high-performance materials",
         connectivity     |-> "12 connections per node",
         relative_density |-> "Medium to high (0.3-0.5)"])

-----------------------------------------------------------------------------
(* networkx.Graph, as create_graph_representation uses it *)

Graph == [nodes |-> <<>>, adj |-> <<>>]

\* The endpoints of the edge list es, in the order add_edges_from meets them
Endpoints(es) ==
    [i \in 1..(2 * Len(es)) |-> es[(i + 1) \div 2][((i - 1) % 2) + 1]]

\* The elements of the sequence s outside the set old, each once, in the
\* order of their first appearance
FirstSeen(s, old) ==
    LET first == SelectSeq([i \in 1..Len(s) |-> i],
                     LAMBDA i : /\ s[i] \notin old
                                /\ \A j \in 1..(i - 1) : s[j] # s[i])
    IN  [k \in 1..Len(first) |-> s[first[k]]]

\* G.add_nodes_from(range(lo, hi)): a node already there stays where it is
add_nodes_from(g, lo, hi) ==
    LET new == FirstSeen([i \in 1..(hi - lo) |-> lo + i - 1], DOMAIN g.adj)
    IN  [nodes |-> g.nodes \o new,
         adj   |-> [w \in DOMAIN g.adj \cup {new[k] : k \in 1..Len(new)} |->
                       IF w \in DOMAIN g.adj THEN g.adj[w] ELSE {}]]

AdjacentOneWay(es, w) ==
    {es[k][2] : k \in {i \in 1..Len(es) : es[i][1] = w}}

\* What G.add_edge(u, v), for every (u, v) of es, puts in adj[w]: v in
\* adj[u] and u in adj[v]
Adjacent(es, w) ==
    {es[k][2] : k \in {i \in 1..Len(es) : es[i][1] = w}} \cup
    {es[k][1] : k \in {i \in 1..Len(es) : es[i][2] = w}}

\* G.add_edges_from(es): an endpoint that is no node yet is added, in the
\* order the list names it; an edge already there is not added again
add_edges_from(g, es) ==
    LET new == FirstSeen(Endpoints(es), DOMAIN g.adj)
    IN  [nodes |-> g.nodes \o new,
         adj   |-> [w \in DOMAIN g.adj \cup {new[k] : k \in 1..Len(new)} |->
                       (IF w \in DOMAIN g.adj THEN g.adj[w] ELSE {})
                       \cup Adjacent(es, w)]]

number_of_nodes(g) == Len(g.nodes)

\* G.degree(): a self-loop counts twice
degree(g, n) ==
    Cardinality(g.adj[n]) + (IF n \in g.adj[n] THEN 1 ELSE 0)

RECURSIVE SumDegrees(_, _)
\* sum(dict(G.degree()).values()), over the nodes G.nodes[k..]
SumDegrees(g, k) ==
    IF k > Len(g.nodes)
    THEN 0
    ELSE degree(g, g.nodes[k]) + SumDegrees(g, k + 1)

\* G.number_of_edges(): half the sum of the degrees
number_of_edges(g) == SumDegrees(g, 1) \div 2

\* nx.density(G)
density(g) ==
    LET n == number_of_nodes(g)
        m == number_of_edges(g)
    IN  IF m = 0 \/ n <= 1 THEN <<0, 1>> ELSE <<2 * m, n * (n - 1)>>

RECURSIVE _plain_bfs(_, _, _)
\* the nodes a breadth-first traversal reaches: seen so far, and the frontier
_plain_bfs(g, seen, frontier) ==
    IF frontier = {}
    THEN seen
    ELSE LET next == (UNION {g.adj[v] : v \in frontier}) \ seen
         IN  _plain_bfs(g, seen \cup next, next)

\* arbitrary_element(G): the first node of the iteration order
arbitrary_element(g) == g.nodes[1]

\* nx.is_connected(G), for a graph with at least one node (networkx raises
\* NetworkXPointlessConcept on the null graph; display_metrics divides by
\* number_of_nodes() before it gets there)
is_connected(g) ==
    LET s == arbitrary_element(g)
    IN  Cardinality(_plain_bfs(g, {s}, {s})) = number_of_nodes(g)

to_numpy_array_upper(g) ==
    [i \in 1..Len(g.nodes) |->
        [j \in 1..Len(g.nodes) |->
            IF i < j /\ g.nodes[j] \in g.adj[g.nodes[i]] THEN 1 ELSE 0]]

\* nx.to_numpy_array(G): rows and columns in G's node order
to_numpy_array(g) ==
    [i \in 1..Len(g.nodes) |->
        [j \in 1..Len(g.nodes) |->
            IF g.nodes[j] \in g.adj[g.nodes[i]] THEN 1 ELSE 0]]

-----------------------------------------------------------------------------
(* Formatting *)

\* f"{num/den:.Nf}" as the integer num/den * scale, rounded to nearest, a tie
\* to the even neighbour (scale = 10^N, den > 0).  Python rounds the double
\* nearest to num/den; the two differ only when num/den * scale is exactly a
\* half, which needs a denominator divisible by 8 (N = 2) or 16 (N = 3) in
\* lowest terms: no graph of fewer than 16 nodes has such a metric.
Format(num, den, scale) ==
    LET q == (num * scale) \div den
        r == (num * scale) % den
    IN  IF 2 * r > den THEN q + 1
        ELSE IF 2 * r < den THEN q
        ELSE IF q % 2 = 0 THEN q ELSE q + 1

-----------------------------------------------------------------------------
(* The functions of main.py *)

RECURSIVE EdgeTrace(_, _, _, _)
\* edge_x (c = 1), edge_y (c = 2), edge_z (c = 3) for the edges es[k..]
EdgeTrace(ns, es, c, k) ==
    IF k > Len(es)
    THEN <<>>
    ELSE <<ns[es[k][1] + 1][c], ns[es[k][2] + 1][c], None>>
         \o EdgeTrace(ns, es, c, k + 1)

\* nodes[edge[0]] and nodes[edge[1]] are in the list for every edge
IndexOK(config) ==
    \A k \in 1..Len(config.edges) :
        /\ config.edges[k][1] < Len(config.nodes)
        /\ config.edges[k][2] < Len(config.nodes)

create_lattice_viz(lt, ns, ew) ==
    LET config == configs[lt]
    IN  [edge_x     |-> EdgeTrace(config.nodes, config.edges, 1, 1),
         edge_y     |-> EdgeTrace(config.nodes, config.edges, 2, 1),
         edge_z     |-> EdgeTrace(config.nodes, config.edges, 3, 1),
         edge_width |-> ew,
         node_x     |-> [i \in 1..Len(config.nodes) |-> config.nodes[i][1]],
         node_y     |-> [i \in 1..Len(config.nodes) |-> config.nodes[i][2]],
         node_z     |-> [i \in 1..Len(config.nodes) |-> config.nodes[i][3]],
         node_size  |-> ns,
         color      |-> config.colors]

GraphOfEdgesOnly(ns, es) == add_edges_from(Graph, es)

\* G = nx.Graph(); G.add_nodes_from(range(len(nodes))); G.add_edges_from(edges)
GraphOf(ns, es) ==
    add_edges_from(add_nodes_from(Graph, 0, Len(ns)), es)

create_graph_representation(lt) ==
    LET config == configs[lt]
    IN  [G     |-> GraphOf(config.nodes, config.edges),
         nodes |-> config.nodes,
         edges |-> config.edges]

\* the metrics dict of display_metrics, for number_of_nodes() > 0
display_metrics(g) ==
    [AverageDegree |-> Format(SumDegrees(g, 1), number_of_nodes(g), 100),
     GraphDensity  |-> Format(density(g)[1], density(g)[2], 1000),
     Connectivity  |-> IF is_connected(g) THEN "Yes" ELSE "No"]

create_adjacency_matrix(g) == to_numpy_array(g)

-----------------------------------------------------------------------------
(* Widgets of main()'s sidebar *)

NodeSizeMin == 5

NodeSizeMax == 20

NodeSizeDefault == 12

EdgeWidthMin == 1

EdgeWidthMax == 5

EdgeWidthDefault == 3

-----------------------------------------------------------------------------
(* Ghost history: what the calls made so far have returned, per family *)

NoHistory(keys) ==
    [f \in keys |-> [calls |-> "never", graph |-> {}, metrics |-> {},
                     adjacency |-> {}]]

Called(h) == IF h.calls = "never" THEN "once" ELSE "repeated"

-----------------------------------------------------------------------------
(* main(), one action per call it makes *)

\* A widget changes and Streamlit runs main() again: the sidebar
\* (lines 218-227) returns the new selection
main_sidebar ==
    /\ pc = "sidebar"
    /\ \E lt \in DOMAIN configs,
          ns \in NodeSizeMin..NodeSizeMax,
          ew \in EdgeWidthMin..EdgeWidthMax :
            /\ lattice_type' = lt
            /\ node_size' = ns
            /\ edge_width' = ew
    /\ pc' = "viz"
    /\ UNCHANGED <<configs, fig, G, nodes, edges, metrics, adj_matrix,
                   props, error, history>>

\* fig = create_lattice_viz(lattice_type, node_size, edge_width)
main_viz ==
    /\ pc = "viz"
    /\ IF IndexOK(configs[lattice_type])
       THEN /\ fig' = create_lattice_viz(lattice_type, node_size, edge_width)
            /\ pc' = "graph"
            /\ error' = error
       ELSE /\ fig' = fig
            /\ pc' = "error"
            /\ error' = "IndexError"
    /\ UNCHANGED <<configs, lattice_type, node_size, edge_width, G, nodes,
                   edges, metrics, adj_matrix, props, history>>

main_graph_draining ==
    /\ pc = "graph"
    /\ LET r == create_graph_representation(lattice_type)
       IN  /\ G' = r.G
           /\ nodes' = r.nodes
           /\ edges' = r.edges
           /\ history' = [history EXCEPT
                  ![lattice_type].calls = Called(history[lattice_type]),
                  ![lattice_type].graph = @ \cup {r}]
    /\ configs' = [configs EXCEPT ![lattice_type].edges = <<>>]
    /\ pc' = "metrics"
    /\ UNCHANGED <<lattice_type, node_size, edge_width, fig,
                   metrics, adj_matrix, props, error>>

\* G, nodes, edges = create_graph_representation(lattice_type)
main_graph ==
    /\ pc = "graph"
    /\ LET r == create_graph_representation(lattice_type)
       IN  /\ G' = r.G
           /\ nodes' = r.nodes
           /\ edges' = r.edges
           /\ history' = [history EXCEPT
                  ![lattice_type].calls = Called(history[lattice_type]),
                  ![lattice_type].graph = @ \cup {r}]
    /\ pc' = "metrics"
    /\ UNCHANGED <<configs, lattice_type, node_size, edge_width, fig,
                   metrics, adj_matrix, props, error>>

\* display_metrics(G): the division by G.number_of_nodes() comes first
main_metrics ==
    /\ pc = "metrics"
    /\ IF number_of_nodes(G) = 0
       THEN /\ error' = "ZeroDivisionError"
            /\ pc' = "error"
            /\ UNCHANGED <<metrics, history>>
       ELSE /\ metrics' = display_metrics(G)
            /\ history' = [history EXCEPT
                   ![lattice_type].metrics = @ \cup {display_metrics(G)}]
            /\ pc' = "adjacency"
            /\ error' = error
    /\ UNCHANGED <<configs, lattice_type, node_size, edge_width, fig, G,
                   nodes, edges, adj_matrix, props>>

\* adj_fig = create_adjacency_matrix(G)
main_adjacency ==
    /\ pc = "adjacency"
    /\ adj_matrix' = create_adjacency_matrix(G)
    /\ history' = [history EXCEPT
           ![lattice_type].adjacency = @ \cup {create_adjacency_matrix(G)}]
    /\ pc' = "properties"
    /\ UNCHANGED <<configs, lattice_type, node_size, edge_width, fig, G,
                   nodes, edges, metrics, props, error>>

\* props = LATTICE_PROPERTIES[lattice_type]
main_properties ==
    /\ pc = "properties"
    /\ props' = LATTICE_PROPERTIES[lattice_type]
    /\ pc' = "return"
    /\ UNCHANGED <<configs, lattice_type, node_size, edge_width, fig, G,
                   nodes, edges, metrics, adj_matrix, error, history>>

\* main() returns: its locals are gone; the tables are module globals
main_return ==
    /\ pc = "return"
    /\ lattice_type' = None /\ node_size' = None /\ edge_width' = None
    /\ fig' = None /\ G' = None /\ nodes' = None /\ edges' = None
    /\ metrics' = None /\ adj_matrix' = None /\ props' = None
    /\ pc' = "sidebar"
    /\ UNCHANGED <<configs, error, history>>

\* The first run of main(): every widget at its default
Init ==
    /\ configs = LATTICE_CONFIGS
    /\ lattice_type = "Simple Cubic"
    /\ node_size = NodeSizeDefault
    /\ edge_width = EdgeWidthDefault
    /\ pc = "viz"
    /\ fig = None /\ G = None /\ nodes = None /\ edges = None
    /\ metrics = None /\ adj_matrix = None /\ props = None
    /\ error = "none"
    /\ history = NoHistory(DOMAIN LATTICE_CONFIGS)

Next ==
    \/ main_sidebar
    \/ main_viz
    \/ main_graph
    \/ main_metrics
    \/ main_adjacency
    \/ main_properties
    \/ main_return

Spec == Init /\ [][Next]_vars

-----------------------------------------------------------------------------
(* The analysis functions on any topology: create_graph_representation,    *)
(* display_metrics and create_adjacency_matrix applied to a table entry    *)
(* "Custom" holding any node list of at most MaxNodes points and any edge  *)
(* list of at most MaxEdges index pairs (indices up to one past the last   *)
(* node), or one of the four families' entries.                            *)

Pairs(n) == {<<a, b>> : a \in 0..n, b \in 0..n}

\* A table entry of n nodes with the edge list es
Topology(n, es) ==
    [nodes  |-> SubSeq(CubeCorners, 1, n),
     edges  |-> es,
     colors |-> Repeat(Blue, n)]

InitAnalyze ==
    /\ \/ \E n \in 0..MaxNodes, k \in 0..MaxEdges :
             \E es \in [1..k -> Pairs(n)] :
                 configs = ("Custom" :> Topology(n, es))
       \/ \E f \in DOMAIN LATTICE_CONFIGS :
             configs = ("Custom" :> LATTICE_CONFIGS[f])
    /\ lattice_type = "Custom"
    /\ node_size = NodeSizeDefault
    /\ edge_width = EdgeWidthDefault
    /\ pc = "graph"
    /\ fig = None /\ G = None /\ nodes = None /\ edges = None
    /\ metrics = None /\ adj_matrix = None /\ props = None
    /\ error = "none"
    /\ history = NoHistory({"Custom"})

NextAnalyze ==
    \/ main_graph
    \/ main_metrics
    \/ main_adjacency

SpecAnalyze == InitAnalyze /\ [][NextAnalyze]_vars

-----------------------------------------------------------------------------
(* Notions of the specification's data model, used to state the claims *)

\* The edge list as the set of unordered pairs it denotes
EdgeSet(es) == {{es[k][1], es[k][2]} : k \in 1..Len(es)}

\* Every edge index is in range and no edge is a self-loop
ValidTopology(config) ==
    \A k \in 1..Len(config.edges) :
        /\ config.edges[k][1] \in 0..(Len(config.nodes) - 1)
        /\ config.edges[k][2] \in 0..(Len(config.nodes) - 1)
        /\ config.edges[k][1] # config.edges[k][2]

\* No unordered pair is listed twice
NoRepeatedEdge(es) == Cardinality(EdgeSet(es)) = Len(es)

\* The number of edges of the list es that contain node index i
Incident(es, i) ==
    Cardinality({k \in 1..Len(es) : i \in {es[k][1], es[k][2]}})

RECURSIVE Reachable(_, _)
\* The indices reachable from the set S over the edges es, in either direction
Reachable(es, S) ==
    LET T == S \cup {es[k][2] : k \in {i \in 1..Len(es) : es[i][1] \in S}}
               \cup {es[k][1] : k \in {i \in 1..Len(es) : es[i][2] \in S}}
    IN  IF T = S THEN S ELSE Reachable(es, T)

\* Component count: the number of maximal reachability classes of the graph
ComponentCount(g) ==
    Cardinality({_plain_bfs(g, {v}, {v}) : v \in DOMAIN g.adj})

RECURSIVE SumRow(_, _)
\* The sum of the entries row[k..]
SumRow(row, k) ==
    IF k > Len(row) THEN 0 ELSE row[k] + SumRow(row, k + 1)

\* The table entry the current call works on
Input == configs[lattice_type]

\* create_graph_representation has returned
Generated == pc \in {"metrics", "adjacency", "properties", "return"}

\* display_metrics has returned the metrics
Measured == pc \in {"adjacency", "properties", "return"}

\* create_adjacency_matrix has returned
Tabulated == pc \in {"properties", "return"}

-----------------------------------------------------------------------------
(* Claims checked under Spec: main() over the four families *)

\* C1  Index validity: every edge (a, b) of every family's table, and of
\* every topology create_graph_representation returns, has 0 <= a < |nodes|,
\* 0 <= b < |nodes| and a # b; so the graph's nodes are exactly the indices
\* 0 .. |nodes| - 1, none added by an edge.
C1_IndexValidity ==
    /\ \A f \in DOMAIN configs : ValidTopology(configs[f])
    /\ Generated =>
          /\ ValidTopology([nodes |-> nodes, edges |-> edges])
          /\ G.nodes = [i \in 1..Len(nodes) |-> i - 1]

\* C1 witness: all four families have been generated
C1_Witness ==
    /\ Generated
    /\ \A f \in DOMAIN LATTICE_CONFIGS : history[f].calls # "never"

\* The corners that differ in exactly one coordinate, as index pairs
CubeSkeleton ==
    {{a, b} : <<a, b>> \in
        {p \in (0..7) \X (0..7) :
            Cardinality({c \in 1..3 :
                CubeCorners[p[1] + 1][c] # CubeCorners[p[2] + 1][c]}) = 1}}

\* C7  SimpleCubic: the nodes are exactly the 8 cube corners, the 12 edges
\* are exactly the pairs of corners that differ in exactly one coordinate,
\* every node has degree 3, the average degree is 3.00 (24/8), the density
\* is 12/28 (0.429), the graph is connected and has 1 component.
C7_SimpleCubic ==
    (Generated /\ lattice_type = "Simple Cubic") =>
        /\ Len(nodes) = 8
        /\ {nodes[i] : i \in 1..8} = {<<x, y, z>> : x, y, z \in {0, 2}}
        /\ Len(edges) = 12
        /\ EdgeSet(edges) = CubeSkeleton
        /\ Cardinality(CubeSkeleton) = 12
        /\ \A i \in 0..7 : degree(G, i) = 3
        /\ SumDegrees(G, 1) = 24
        /\ density(G)[1] * 28 = 12 * density(G)[2]
        /\ is_connected(G)
        /\ ComponentCount(G) = 1
        /\ Measured =>
              /\ metrics.AverageDegree = 300
              /\ metrics.GraphDensity = 429
              /\ metrics.Connectivity = "Yes"

\* C7 witness: the metrics of the Simple Cubic lattice are on display
C7_Witness ==
    /\ Measured
    /\ lattice_type = "Simple Cubic"
    /\ metrics.AverageDegree = 300

\* The center (index 8) joined to each of the 8 corners
CenterSpokes == {{8, i} : i \in 0..7}

\* C8  BCC and Octet: each has 9 nodes, the 8 corners at indices 0-7 and the
\* body center (0.5, 0.5, 0.5) at index 8, and the same 20 edges as unordered
\* pairs: the 12 SimpleCubic edges and one edge from the center to each
\* corner; the center has degree 8, every corner degree 4, the sum is 40.
C8_BCC_Octet ==
    /\ EdgeSet(configs["BCC"].edges) = EdgeSet(configs["Octet"].edges)
    /\ (Generated /\ lattice_type \in {"BCC", "Octet"}) =>
          /\ Len(nodes) = 9
          /\ SubSeq(nodes, 1, 8) = CubeCorners
          /\ nodes[9] = <<1, 1, 1>>
          /\ Len(edges) = 20
          /\ EdgeSet(edges) =
                EdgeSet(configs["Simple Cubic"].edges) \cup CenterSpokes
          /\ Cardinality(EdgeSet(edges)) = 20
          /\ degree(G, 8) = 8
          /\ \A i \in 0..7 : degree(G, i) = 4
          /\ SumDegrees(G, 1) = 40
          /\ number_of_nodes(G) = 9

\* C8 witness: both families have been generated, Octet just now
C8_Witness ==
    /\ Generated
    /\ lattice_type = "Octet"
    /\ history["BCC"].calls # "never"
    /\ degree(G, 8) = 8

\* The corners on the face of the cube that holds the face center at index k:
\* those that agree with it in the coordinate in which it is not 1/2
FaceCorners(ns, k) ==
    {i \in 0..7 : \A c \in 1..3 : ns[k + 1][c] # 1 => ns[i + 1][c] = ns[k + 1][c]}

\* C9  FCC: 11 nodes (8 corners and 3 face centers) and 24 edges: the 12
\* cube edges and 12 edges from a face center to a corner, each face center
\* joined to exactly the 4 corners of its own face and to nothing else; each
\* face center has degree 4 and the degrees sum to 48.
C9_FCC ==
    (Generated /\ lattice_type = "FCC") =>
        /\ Len(nodes) = 11
        /\ SubSeq(nodes, 1, 8) = CubeCorners
        /\ \A k \in 8..10 :
              Cardinality({c \in 1..3 : nodes[k + 1][c] = 1}) = 2
        /\ Len(edges) = 24
        /\ Cardinality(EdgeSet(edges)) = 24
        /\ {e \in EdgeSet(edges) : e \subseteq 0..7} =
              EdgeSet(configs["Simple Cubic"].edges)
        /\ Cardinality({e \in EdgeSet(edges) : ~(e \subseteq 0..7)}) = 12
        /\ \A k \in 8..10 :
              /\ Cardinality(FaceCorners(nodes, k)) = 4
              /\ G.adj[k] = FaceCorners(nodes, k)
              /\ degree(G, k) = 4
        /\ SumDegrees(G, 1) = 48
        /\ number_of_nodes(G) = 11

\* C9 witness: the FCC lattice has been generated and measured
C9_Witness ==
    /\ Measured
    /\ lattice_type = "FCC"
    /\ metrics.AverageDegree = 436

\* C10  No mutation and determinism: whatever calls main() has made (over
\* any families, any number of runs), the lattice tables are what they were
\* at the start, the nodes and edges handed to the analysis are the table's,
\* and every call of create_graph_representation, display_metrics and
\* create_adjacency_matrix for a family has returned the same value as every
\* earlier call for that family.
C10_NoMutation ==
    /\ configs = LATTICE_CONFIGS
    /\ Generated => /\ nodes = configs[lattice_type].nodes
                    /\ edges = configs[lattice_type].edges
    /\ \A f \in DOMAIN history :
          /\ Cardinality(history[f].graph) <= 1
          /\ Cardinality(history[f].metrics) <= 1
          /\ Cardinality(history[f].adjacency) <= 1

\* C10 witness: every family has been generated and analysed more than once
C10_Witness ==
    /\ pc = "return"
    /\ \A f \in DOMAIN history :
          /\ history[f].calls = "repeated"
          /\ history[f].adjacency # {}

-----------------------------------------------------------------------------
(* Claims checked under SpecAnalyze: the analysis of any topology *)

\* C2  Handshake lemma: for every topology handed to the analysis, the sum
\* of the node degrees (as display_metrics sums them over the graph of
\* create_graph_representation) is exactly twice the number of edges: twice
\* the number of unordered pairs in the edge set, which is twice the length
\* of the edge list whenever the list names no pair twice; and for a valid
\* topology the degree of node i is the number of edges that contain i.
C2_Handshake ==
    Generated =>
        /\ SumDegrees(G, 1) = 2 * Cardinality(EdgeSet(edges))
        /\ NoRepeatedEdge(edges) => SumDegrees(G, 1) = 2 * Len(edges)
        /\ (NoRepeatedEdge(edges) /\ ValidTopology(Input)) =>
              \A i \in 0..(Len(nodes) - 1) : degree(G, i) = Incident(edges, i)

\* C2 witness: the degrees of a topology with two distinct edges were summed
C2_Witness ==
    /\ Measured
    /\ Len(edges) = 2
    /\ NoRepeatedEdge(edges)
    /\ SumDegrees(G, 1) = 4

\* C3  Adjacency matrix consistency: for every analysed topology (one that
\* meets the input constraints of the analysis: indices in range, no
\* self-loop) the matrix is |nodes| x |nodes|, M[i][j] = 1 iff (i, j) or
\* (j, i) is an edge and 0 otherwise, M is symmetric with a zero diagonal,
\* and the sum of row i is the degree of node i.
C3_AdjacencyMatrix ==
    (Tabulated /\ ValidTopology(Input)) =>
        LET n == Len(nodes)
            M == adj_matrix
        IN  /\ Len(M) = n
            /\ \A i \in 1..n : Len(M[i]) = n
            /\ \A i \in 0..(n - 1), j \in 0..(n - 1) :
                  /\ M[i + 1][j + 1] \in {0, 1}
                  /\ M[i + 1][j + 1] = 1 <=>
                        \E k \in 1..Len(edges) :
                            edges[k] = <<i, j>> \/ edges[k] = <<j, i>>
                  /\ M[i + 1][j + 1] = M[j + 1][i + 1]
            /\ \A i \in 0..(n - 1) :
                  /\ M[i + 1][i + 1] = 0
                  /\ SumRow(M[i + 1], 1) = degree(G, i)

\* C3 witness: the matrix of a valid topology with two edges at one node
C3_Witness ==
    /\ Tabulated
    /\ ValidTopology(Input)
    /\ Len(edges) = 2
    /\ \E i \in 1..Len(adj_matrix) : SumRow(adj_matrix[i], 1) = 2

\* C4  Malformed topology is rejected: the analysis of a topology with an
\* edge index out of range, or with a self-loop, fails with
\* MalformedTopologyError and never goes on to produce metrics.
C4_MalformedRejected ==
    ~ValidTopology(Input) =>
        /\ ~Measured
        /\ pc = "error" => error = "MalformedTopologyError"

\* C5  Empty topology: the analysis of nodes = [], edges = [] fails with
\* EmptyTopologyError when the average degree is requested, never with a
\* division by zero; and the density of a topology with fewer than 2 nodes
\* is 0.
C5_EmptyTopology ==
    /\ (Len(Input.nodes) = 0 /\ Len(Input.edges) = 0) =>
          /\ ~Measured
          /\ error # "ZeroDivisionError"
          /\ pc = "error" => error = "EmptyTopologyError"
    /\ (Generated /\ number_of_nodes(G) < 2) => density(G)[1] = 0

\* The nodes of the graph of a topology: the indices of its node list and
\* every index an edge names
GraphNodes(config) ==
    0..(Len(config.nodes) - 1) \cup
    UNION {{config.edges[k][1], config.edges[k][2]} :
              k \in 1..Len(config.edges)}

\* The node the traversal starts from: the first one added to the graph
StartNode(config) ==
    IF Len(config.nodes) > 0 THEN 0 ELSE config.edges[1][1]

\* The topology of the disconnection test: 4 nodes and the edge (0, 1) only
DisconnectionTest ==
    /\ Len(Input.nodes) = 4
    /\ Input.edges = << <<0, 1>> >>

=============================================================================
